---- MODULE Spec2Model ----
(***************************************************************************)
(* Model of the encapsulated-packet codec and the acknowledgement codec of *)
(* go-raknet (packet.go).  Buffers are sequences of bytes (0..255); the    *)
(* bytes.Buffer b holds its unread bytes, reads consume from the front and *)
(* writes append at the end.                                               *)
(***************************************************************************)
EXTENDS Integers, Sequences, FiniteSets, TLC

VARIABLES
    b,                  \* the bytes.Buffer handed to write/read: its unread bytes
    op,                 \* the operation that produced the current state
    err,                \* the error returned by the last write/read ("nil" = none)
    in,                 \* the packets written to b, oldest first
    trail,              \* bytes put in b behind the written packets
    truncated,          \* TRUE once b.Truncate cut bytes off the end of b
    nread,              \* number of packet.read calls made on b
    out,                \* the packet struct that packet.read decodes into
    consumed,           \* bytes that the last packet.read took from b
    input,              \* the sequence numbers as handed to the encoder
    ack,                \* acknowledgement.packets of the encoding side
    recordCount,        \* acknowledgement.write: its int16 record counter at the return
    rack,               \* acknowledgement.packets of the decoding side
    n,                  \* acknowledgement.read: the int16 recordCount read from b
    i,                  \* acknowledgement.read: loop counter
    pc                  \* "read" inside the loop of acknowledgement.read, else "idle"

vars == << b, op, err, in, trail, truncated, nread, out, consumed, input, ack,
           recordCount, rack, n, i, pc >>

pktVars == << in, trail, truncated, nread, out, consumed >>
ackWriteVars == << input, ack, recordCount >>
ackReadVars == << rack, n, i >>

(***************************************************************************)
(* Bounds of the model.                                                    *)
(***************************************************************************)
MaxPackets == 2     \* packets written back to back into one buffer
MaxAckLen == 3      \* length of the generated sequence-number lists
MaxRawRecords == 2  \* raw records in a hand-made acknowledgement buffer

(***************************************************************************)
(* Constants of packet.go.                                                 *)
(***************************************************************************)
reliabilityUnreliable == 0
reliabilityUnreliableSequenced == 1
reliabilityReliable == 2
reliabilityReliableOrdered == 3
reliabilityReliableSequenced == 4
reliabilityUnreliableWithAck == 5
reliabilityReliableWithAck == 6
reliabilityReliableOrderedWithAck == 7
splitFlag == 16
PacketRange == 0
PacketSingle == 1

Byte == 0..255
Tags == 0..7

(***************************************************************************)
(* Fixed-width integers.                                                   *)
(***************************************************************************)
ToUint16(v) == v % 65536
ToInt16(v) == IF v % 65536 >= 32768 THEN (v % 65536) - 65536 ELSE v % 65536

\* binary.Write(b, binary.BigEndian, x) for a 16-bit x (signed or unsigned)
PutUint16(v) == << (v % 65536) \div 256, v % 256 >>
\* binary.Write(b, binary.BigEndian, x) for a uint32 x
PutUint32(v) == << (v \div 16777216) % 256, (v \div 65536) % 256,
                   (v \div 256) % 256, v % 256 >>
\* writeUint24: the low 24 bits of v as 3 bytes, big-endian
writeUint24(v) == << (v \div 65536) % 256, (v \div 256) % 256, v % 256 >>

Uint16Of(s) == s[1] * 256 + s[2]
Uint24Of(s) == s[1] * 65536 + s[2] * 256 + s[3]
Uint32Of(s) == s[1] * 16777216 + s[2] * 65536 + s[3] * 256 + s[4]

Drop(s, k) == SubSeq(s, k + 1, Len(s))
Take(s, k) == SubSeq(s, 1, k)

\* binary.Read(b, order, &x) of a k-byte x: io.ReadFull takes k bytes or, when
\* fewer are left, takes what is left and fails without storing anything.
ReadFull(s, k) ==
    IF Len(s) >= k THEN [ok |-> TRUE, bytes |-> Take(s, k), rest |-> Drop(s, k)]
    ELSE [ok |-> FALSE, bytes |-> <<>>, rest |-> <<>>]

\* readUint24: 3 bytes big-endian, top 8 bits zero; fails if fewer than 3 remain
readUint24(s) ==
    IF Len(s) >= 3 THEN [ok |-> TRUE, val |-> Uint24Of(s), rest |-> Drop(s, 3)]
    ELSE [ok |-> FALSE, val |-> 0, rest |-> <<>>]

(***************************************************************************)
(* Reliability classifiers.                                                *)
(***************************************************************************)
reliable(r) ==
    r \in { reliabilityReliable, reliabilityReliableOrdered,
            reliabilityReliableSequenced, reliabilityReliableWithAck,
            reliabilityReliableOrderedWithAck }

\* variant: the last case of the switch is missing
sequencedOrOrdered_NoOrderedWithAck(r) ==
    r \in { reliabilityUnreliableSequenced, reliabilityReliableOrdered,
            reliabilityReliableSequenced }

sequencedOrOrdered(r) ==
    r \in { reliabilityUnreliableSequenced, reliabilityReliableOrdered,
            reliabilityReliableSequenced, reliabilityReliableOrderedWithAck }

sequenced(r) ==
    r \in { reliabilityUnreliableSequenced, reliabilityReliableSequenced }

(***************************************************************************)
(* packet.write                                                            *)
(***************************************************************************)
\* the zero value of the packet struct
ZeroPacket ==
    [ reliability |-> 0, content |-> <<>>, messageIndex |-> 0,
      sequenceIndex |-> 0, orderIndex |-> 0, split |-> FALSE,
      splitCount |-> 0, splitIndex |-> 0, splitID |-> 0 ]

WriteHeader(p) ==
    << ((p.reliability * 32) % 256) + (IF p.split THEN splitFlag ELSE 0) >>

\* variant: the length is written without the shift by 3
WriteLength_NoShift(p) == PutUint16(ToUint16(Len(p.content)))

WriteLength(p) == PutUint16((ToUint16(Len(p.content)) * 8) % 65536)

WriteMessageIndex(p) ==
    IF reliable(p.reliability) THEN writeUint24(p.messageIndex) ELSE <<>>

WriteSequenceIndex(p) ==
    IF sequenced(p.reliability) THEN writeUint24(p.sequenceIndex) ELSE <<>>

WriteOrderIndex(p) ==
    IF sequencedOrOrdered(p.reliability)
    THEN writeUint24(p.orderIndex) \o <<0>> ELSE <<>>

WriteSplit(p) ==
    IF p.split
    THEN PutUint32(p.splitCount) \o PutUint16(p.splitID) \o PutUint32(p.splitIndex)
    ELSE <<>>

\* the bytes that packet.write appends to the buffer
packetWrite(p) ==
    WriteHeader(p) \o WriteLength(p) \o WriteMessageIndex(p)
      \o WriteSequenceIndex(p) \o WriteOrderIndex(p) \o WriteSplit(p) \o p.content

(***************************************************************************)
(* packet.read, one stage per field.  A stage takes and returns a record   *)
(* [pkt, b, err, len]: the struct so far, the unread bytes, the error and  *)
(* packetLength; a stage does nothing once err is set.                     *)
(***************************************************************************)
ReadHeader(r) ==
    IF Len(r.b) = 0 THEN [r EXCEPT !.err = "ErrHeader"]
    ELSE [r EXCEPT !.b = Tail(r.b),
                   !.pkt.split = ((r.b[1] \div splitFlag) % 2 = 1),
                   !.pkt.reliability = (r.b[1] \div 32) % 8]

\* variant: the length field is tested for 0 before the shift by 3
ReadLength_TestBeforeShift(r) ==
    IF r.err # "nil" THEN r
    ELSE LET x == ReadFull(r.b, 2) IN
         IF ~x.ok THEN [r EXCEPT !.b = x.rest, !.err = "ErrLength"]
         ELSE IF Uint16Of(x.bytes) = 0
              THEN [r EXCEPT !.b = x.rest, !.len = 0, !.err = "ErrInvalidLength"]
              ELSE [r EXCEPT !.b = x.rest, !.len = Uint16Of(x.bytes) \div 8]

ReadLength(r) ==
    IF r.err # "nil" THEN r
    ELSE LET x == ReadFull(r.b, 2) IN
         IF ~x.ok THEN [r EXCEPT !.b = x.rest, !.err = "ErrLength"]
         ELSE LET packetLength == Uint16Of(x.bytes) \div 8 IN
              IF packetLength = 0
              THEN [r EXCEPT !.b = x.rest, !.len = 0, !.err = "ErrInvalidLength"]
              ELSE [r EXCEPT !.b = x.rest, !.len = packetLength]

ReadMessageIndex(r) ==
    IF r.err # "nil" \/ ~reliable(r.pkt.reliability) THEN r
    ELSE LET x == readUint24(r.b) IN
         [r EXCEPT !.b = x.rest, !.pkt.messageIndex = x.val,
                   !.err = IF x.ok THEN "nil" ELSE "ErrMessageIndex"]

ReadSequenceIndex(r) ==
    IF r.err # "nil" \/ ~sequenced(r.pkt.reliability) THEN r
    ELSE LET x == readUint24(r.b) IN
         [r EXCEPT !.b = x.rest, !.pkt.sequenceIndex = x.val,
                   !.err = IF x.ok THEN "nil" ELSE "ErrSequenceIndex"]

\* variant: the order channel byte is left in the buffer
ReadOrderIndex_NoSkip(r) ==
    IF r.err # "nil" \/ ~sequencedOrOrdered(r.pkt.reliability) THEN r
    ELSE LET x == readUint24(r.b) IN
         [r EXCEPT !.b = x.rest, !.pkt.orderIndex = x.val,
                   !.err = IF x.ok THEN "nil" ELSE "ErrOrderIndex"]

\* b.Next(1) skips the order channel byte, or nothing when b is empty
ReadOrderIndex(r) ==
    IF r.err # "nil" \/ ~sequencedOrOrdered(r.pkt.reliability) THEN r
    ELSE LET x == readUint24(r.b) IN
         IF ~x.ok
         THEN [r EXCEPT !.b = x.rest, !.pkt.orderIndex = x.val,
                        !.err = "ErrOrderIndex"]
         ELSE [r EXCEPT !.b = IF Len(x.rest) = 0 THEN <<>> ELSE Tail(x.rest),
                        !.pkt.orderIndex = x.val]

ReadSplitCount(r) ==
    IF r.err # "nil" \/ ~r.pkt.split THEN r
    ELSE LET x == ReadFull(r.b, 4) IN
         IF ~x.ok THEN [r EXCEPT !.b = x.rest, !.err = "ErrSplitCount"]
         ELSE [r EXCEPT !.b = x.rest, !.pkt.splitCount = Uint32Of(x.bytes)]

ReadSplitID(r) ==
    IF r.err # "nil" \/ ~r.pkt.split THEN r
    ELSE LET x == ReadFull(r.b, 2) IN
         IF ~x.ok THEN [r EXCEPT !.b = x.rest, !.err = "ErrSplitID"]
         ELSE [r EXCEPT !.b = x.rest, !.pkt.splitID = Uint16Of(x.bytes)]

ReadSplitIndex(r) ==
    IF r.err # "nil" \/ ~r.pkt.split THEN r
    ELSE LET x == ReadFull(r.b, 4) IN
         IF ~x.ok THEN [r EXCEPT !.b = x.rest, !.err = "ErrSplitIndex"]
         ELSE [r EXCEPT !.b = x.rest, !.pkt.splitIndex = Uint32Of(x.bytes)]

\* content = make([]byte, packetLength); b.Read(content): Read copies what is
\* there, up to len(content), and fails only when b is empty.
ReadContent(r) ==
    IF r.err # "nil" THEN r
    ELSE LET k == IF Len(r.b) < r.len THEN Len(r.b) ELSE r.len
             zeros == [j \in 1..(r.len - k) |-> 0]
         IN  [r EXCEPT !.b = Drop(r.b, k),
                       !.pkt.content = Take(r.b, k) \o zeros,
                       !.err = IF Len(r.b) = 0 THEN "ErrContent" ELSE "nil"]

packetRead(p, s) ==
    ReadContent(ReadSplitIndex(ReadSplitID(ReadSplitCount(ReadOrderIndex(
        ReadSequenceIndex(ReadMessageIndex(ReadLength(ReadHeader(
            [pkt |-> p, b |-> s, err |-> "nil", len |-> 0])))))))))

(***************************************************************************)
(* Inputs.                                                                 *)
(***************************************************************************)
\* the longest content whose length fits the 16-bit field after the shift by 3
MaxContentLength == (2^16 - 1) \div 8

LongContent == [j \in 1..MaxContentLength |-> j % 256]

\* index and split fields with pairwise distinct bytes
MakePacket(r, sp, c) ==
    [ reliability |-> r, content |-> c, messageIndex |-> 66051,
      sequenceIndex |-> 263430, orderIndex |-> 460809, split |-> sp,
      splitCount |-> 168496141, splitIndex |-> 286397204, splitID |-> 3599 ]

\* every field at the top of its range (the split counters at the largest value
\* below 2^31, the top of the integers the model checker computes with)
MaxFields(r, sp, c) ==
    [ reliability |-> r, content |-> c, messageIndex |-> 2^24 - 1,
      sequenceIndex |-> 2^24 - 1, orderIndex |-> 2^24 - 1, split |-> sp,
      splitCount |-> 2147483647, splitIndex |-> 2147483647,
      splitID |-> 2^16 - 1 ]

SmallPackets ==
    { MakePacket(r, sp, <<7, 8>>) : r \in Tags, sp \in BOOLEAN }

EdgePackets ==
    { MaxFields(reliabilityReliableSequenced, TRUE, <<0>>),
            MaxFields(reliabilityUnreliable, FALSE, <<255, 0, 255>>) }

LongPackets == { MakePacket(reliabilityReliableSequenced, TRUE, LongContent) }

Packets == SmallPackets \cup EdgePackets \cup LongPackets

\* the struct handed to packet.read: a fresh one, or one that was used before
OutSamples ==
    { ZeroPacket,
      [ reliability |-> reliabilityReliableSequenced, content |-> <<9, 9>>,
        messageIndex |-> 11, sequenceIndex |-> 12, orderIndex |-> 13,
        split |-> TRUE, splitCount |-> 14, splitIndex |-> 15, splitID |-> 16 ] }

TrailSamples == { <<0, 0, 8, 1>> }

\* header byte, length field, following bytes
RawSamples ==
    { <<h>> \o l \o t : h \in Byte,
                        l \in { <<0, 0>>, <<0, 7>>, <<0, 8>>, <<0, 16>> },
                        t \in { <<>>, <<1, 2, 3, 4, 5, 6, 7, 8, 9, 10, 11, 12, 13, 14, 15, 16, 17, 18, 19, 20, 21>> } }

(***************************************************************************)
(* Operations on packets.                                                  *)
(***************************************************************************)
InitAckVars ==
    /\ input = <<>> /\ ack = <<>> /\ recordCount = 0
    /\ rack = <<>> /\ n = 0 /\ i = 0
    /\ pc = "idle"

Init ==
    /\ b = <<>> /\ op = "init" /\ err = "nil"
    /\ in = <<>> /\ trail = <<>> /\ truncated = FALSE /\ nread = 0
    /\ out = ZeroPacket /\ consumed = 0
    /\ InitAckVars

\* p.write(b)
Write(p) ==
    /\ op \in { "init", "write" } /\ Len(in) < MaxPackets
    /\ b' = b \o packetWrite(p)
    /\ in' = Append(in, p)
    /\ op' = "write" /\ err' = "nil"
    /\ UNCHANGED << trail, truncated, nread, out, consumed, pc >>
    /\ UNCHANGED ackWriteVars /\ UNCHANGED ackReadVars

\* b.Write(t)
BufferWrite(t) ==
    /\ pc = "idle" /\ op \in { "init", "write" } /\ trail = <<>>
    /\ b' = b \o t
    /\ trail' = t
    /\ op' = "bytes"
    /\ UNCHANGED << err, in, truncated, nread, out, consumed, pc >>
    /\ UNCHANGED ackWriteVars /\ UNCHANGED ackReadVars

\* b.Truncate(k): keep the first k unread bytes of the one packet written
Truncate(k) ==
    /\ op = "write" /\ Len(in) = 1 /\ k < Len(b)
    /\ b' = Take(b, k)
    /\ truncated' = TRUE
    /\ op' = "truncate"
    /\ UNCHANGED << err, in, trail, nread, out, consumed, pc >>
    /\ UNCHANGED ackWriteVars /\ UNCHANGED ackReadVars

\* out.read(b)
Read ==
    /\ op # "init" /\ nread <= Len(in)
    /\ LET r == packetRead(out, b) IN
         /\ out' = r.pkt
         /\ b' = r.b
         /\ err' = r.err
         /\ consumed' = Len(b) - Len(r.b)
    /\ nread' = nread + 1
    /\ op' = "read"
    /\ UNCHANGED << in, trail, truncated, pc >>
    /\ UNCHANGED ackWriteVars /\ UNCHANGED ackReadVars

Next ==
    \/ \E p \in Packets : Write(p)
    \/ \E t \in TrailSamples : BufferWrite(t)
    \/ Read

Spec == Init /\ [][Next]_vars

\* one packet cut short before it is read
NextTrunc ==
    \/ \E p \in SmallPackets \cup EdgePackets : Write(p)
    \/ \E k \in 0..(Len(b) - 1) : Truncate(k)
    \/ Read

SpecTrunc == Init /\ [][NextTrunc]_vars

\* hand-made bytes read into a fresh or a used struct
InitRaw ==
    /\ b = <<>> /\ op = "init" /\ err = "nil"
    /\ in = <<>> /\ trail = <<>> /\ truncated = FALSE /\ nread = 0
    /\ out \in OutSamples /\ consumed = 0
    /\ InitAckVars

NextRaw ==
    \/ \E s \in RawSamples : BufferWrite(s)
    \/ Read

SpecRaw == InitRaw /\ [][NextRaw]_vars

(***************************************************************************)
(* acknowledgement.write                                                   *)
(***************************************************************************)
\* variant: the slice is encoded in the order it was given in
sortSlice_NoSort(s) == s

\* sort.Slice(ack.packets, less): ascending order, equal values kept
sortSlice(s) == SortSeq(s, LAMBDA x, y : x < y)

\* variant: a run of two packets is written as two single records
WriteRecord_PairAsSingles(first, last) ==
    IF first = last
    THEN <<PacketSingle>> \o writeUint24(first)
    ELSE IF last = first + 1
    THEN <<PacketSingle>> \o writeUint24(first)
           \o <<PacketSingle>> \o writeUint24(last)
    ELSE <<PacketRange>> \o writeUint24(first) \o writeUint24(last)

\* the bytes of the record for the run [first, last]
WriteRecord(first, last) ==
    IF first = last
    THEN <<PacketSingle>> \o writeUint24(first)
    ELSE <<PacketRange>> \o writeUint24(first) \o writeUint24(last)

\* variant: a packet equal to the last one of the run is skipped
WriteStep_SkipDuplicates(st, idx, packet) ==
    IF idx = 0
    THEN [st EXCEPT !.firstPacketInRange = packet, !.lastPacketInRange = packet]
    ELSE IF packet = st.lastPacketInRange THEN st
    ELSE IF packet = st.lastPacketInRange + 1
    THEN [st EXCEPT !.lastPacketInRange = packet]
    ELSE [st EXCEPT
            !.buffer = st.buffer \o WriteRecord(st.firstPacketInRange,
                                                st.lastPacketInRange),
            !.firstPacketInRange = packet,
            !.lastPacketInRange = packet,
            !.recordCount = ToInt16(st.recordCount + 1)]

\* the body of "for index, packet := range ack.packets" on the locals st
WriteStep(st, idx, packet) ==
    IF idx = 0
    THEN [st EXCEPT !.firstPacketInRange = packet, !.lastPacketInRange = packet]
    ELSE IF packet = st.lastPacketInRange + 1
    THEN [st EXCEPT !.lastPacketInRange = packet]
    ELSE [st EXCEPT
            !.buffer = st.buffer \o WriteRecord(st.firstPacketInRange,
                                                st.lastPacketInRange),
            !.firstPacketInRange = packet,
            !.lastPacketInRange = packet,
            !.recordCount = ToInt16(st.recordCount + 1)]

\* the loop over s[lo..hi], started with the locals st: the first half of the
\* iterations, then the second half on the locals the first half left (bound
\* as a value, so that it is computed once)
RECURSIVE WriteLoop(_, _, _, _)
WriteLoop(st, s, lo, hi) ==
    IF lo > hi THEN st
    ELSE IF lo = hi THEN WriteStep(st, lo - 1, s[lo])
    ELSE CHOOSE r \in UNION { { WriteLoop(half, s, mid + 1, hi) :
                                  half \in { WriteLoop(st, s, lo, mid) } } :
                              mid \in { (lo + hi) \div 2 } } : TRUE

\* the locals of write when the loop has ended
WriteLocals(s) ==
    WriteLoop([firstPacketInRange |-> 0, lastPacketInRange |-> 0,
               recordCount |-> 1, buffer |-> <<>>], s, 1, Len(s))

\* ack.write(b)
AckWrite ==
    /\ pc = "idle" /\ op = "init"
    /\ IF Len(ack) = 0
       THEN /\ b' = b \o <<0>>
            /\ UNCHANGED << ack, recordCount >>
       ELSE \E sorted \in { sortSlice(ack) } :
            \E st \in { WriteLocals(sorted) } :
                /\ ack' = sorted
                /\ recordCount' = st.recordCount
                /\ b' = b \o PutUint16(st.recordCount) \o st.buffer
                          \o WriteRecord(st.firstPacketInRange,
                                         st.lastPacketInRange)
    /\ op' = "ackwrite" /\ err' = "nil"
    /\ UNCHANGED << input, pc >> /\ UNCHANGED pktVars /\ UNCHANGED ackReadVars

(***************************************************************************)
(* acknowledgement.read: the call up to the first test of the loop         *)
(* condition, then one action per iteration, each up to the next test of   *)
(* the loop condition; the call returns nil when the test fails.           *)
(***************************************************************************)
AckRead ==
    /\ pc = "idle" /\ op \in { "ackwrite", "bytes" }
    /\ LET x == ReadFull(b, 2)
           count == ToInt16(Uint16Of(x.bytes))
       IN  /\ b' = x.rest
           /\ IF ~x.ok
              THEN /\ err' = IF Len(b) = 0 THEN "EOF" ELSE "ErrUnexpectedEOF"
                   /\ op' = "ackread"
                   /\ UNCHANGED << n, i, pc >>
              ELSE /\ n' = count
                   /\ i' = 0
                   /\ IF 0 < count
                      THEN pc' = "read" /\ UNCHANGED << op, err >>
                      ELSE pc' = "idle" /\ op' = "ackread" /\ err' = "nil"
    /\ UNCHANGED rack /\ UNCHANGED pktVars /\ UNCHANGED ackWriteVars

\* the packets start, start+1, ..., end (none when end < start)
PacketsOfRange(start, end) == [k \in 1..(end - start + 1) |-> start + k - 1]

\* i++ and the test i < recordCount
NextRecord ==
    /\ i' = i + 1
    /\ IF i + 1 < n
       THEN UNCHANGED << pc, op, err >>
       ELSE pc' = "idle" /\ op' = "ackread" /\ err' = "nil"

\* return err
Fail(e, rest) ==
    /\ err' = e /\ pc' = "idle" /\ op' = "ackread"
    /\ b' = rest
    /\ UNCHANGED << rack, i >>

\* variant: a record type other than range and single is an error
AckReadRecord_StrictTag ==
    /\ pc = "read"
    /\ IF Len(b) = 0 \/ Head(b) \notin { PacketRange, PacketSingle }
       THEN Fail("EOF", b)
       ELSE /\ b' = Drop(b, IF Head(b) = PacketRange THEN 7 ELSE 4)
            /\ rack' = rack
            /\ NextRecord
    /\ UNCHANGED n /\ UNCHANGED pktVars /\ UNCHANGED ackWriteVars

\* one iteration of "for i := int16(0); i < recordCount; i++"
AckReadRecord ==
    /\ pc = "read"
    /\ IF Len(b) = 0
       THEN Fail("EOF", b)
       ELSE LET recordType == Head(b)
                first == readUint24(Tail(b))
                second == readUint24(first.rest)
            IN  IF recordType = PacketRange
                THEN IF ~first.ok \/ ~second.ok
                     THEN Fail("ErrTruncated", <<>>)
                     ELSE /\ rack' = rack \o PacketsOfRange(first.val, second.val)
                          /\ b' = second.rest
                          /\ NextRecord
                ELSE IF recordType = PacketSingle
                THEN IF ~first.ok
                     THEN Fail("ErrTruncated", <<>>)
                     ELSE /\ rack' = Append(rack, first.val)
                          /\ b' = first.rest
                          /\ NextRecord
                ELSE /\ b' = Tail(b)
                     /\ rack' = rack
                     /\ NextRecord
    /\ UNCHANGED n /\ UNCHANGED pktVars /\ UNCHANGED ackWriteVars

(***************************************************************************)
(* Inputs of the acknowledgement codec.                                    *)
(***************************************************************************)
SeqNums == { 0, 1, 2, 255, 256, 2^24 - 2, 2^24 - 1 }

SeqsUpTo(S, k) == UNION { [1..m -> S] : m \in 0..k }

ExampleInputs ==
    { <<13, 5, 12, 6, 10, 7>>, <<101, 100>>, <<5, 5, 6>>, <<6, 5, 6, 8, 5>>,
      <<65535, 65537, 65536, 70000>> }

AckInputs == SeqsUpTo(SeqNums, MaxAckLen) \cup ExampleInputs

\* records as they may arrive: unknown types, a single, a range, an empty
\* range, and records cut short
RawRecords ==
    { <<2>>, <<255>>, <<1, 0, 1, 0>>, <<0, 0, 0, 5, 0, 0, 7>>,
      <<0, 0, 0, 9, 0, 0, 8>>, <<1, 0>>, <<0, 0, 0, 1, 0>> }

RECURSIVE Flatten(_)
Flatten(ss) == IF ss = <<>> THEN <<>> ELSE Head(ss) \o Flatten(Tail(ss))

RawCounts == { <<0, 0>>, <<0, 1>>, <<0, 2>>, <<0, 3>>, <<255, 255>>, <<128, 0>> }

RawAcks ==
    { <<>>, <<1>> } \cup
    { c \o Flatten(rs) : c \in RawCounts, rs \in SeqsUpTo(RawRecords, MaxRawRecords) }

InitPktVars ==
    /\ in = <<>> /\ trail = <<>> /\ truncated = FALSE /\ nread = 0
    /\ out = ZeroPacket /\ consumed = 0

InitAck ==
    /\ b = <<>> /\ op = "init" /\ err = "nil"
    /\ InitPktVars
    /\ input \in AckInputs /\ ack = input
    /\ recordCount = 0
    /\ rack = <<>> /\ n = 0 /\ i = 0
    /\ pc = "idle"

NextAck ==
    \/ AckWrite
    \/ (input = <<>> /\ \E s \in RawAcks : BufferWrite(s))
    \/ AckRead
    \/ AckReadRecord

SpecAck == InitAck /\ [][NextAck]_vars

\* one isolated packet more than an int16 counts records
TooManyRecords == [k \in 1..(2^15) |-> 2 * k]

InitAckLong ==
    /\ b = <<>> /\ op = "init" /\ err = "nil"
    /\ InitPktVars
    /\ input \in AckInputs \cup { TooManyRecords } /\ ack = input
    /\ recordCount = 0
    /\ rack = <<>> /\ n = 0 /\ i = 0
    /\ pc = "idle"

NextAckLong ==
    \/ AckWrite
    \/ AckRead
    \/ AckReadRecord

SpecAckLong == InitAckLong /\ [][NextAckLong]_vars

(***************************************************************************)
(* Properties of the packet codec.                                         *)
(***************************************************************************)
\* o agrees with p on the tag, the split flag, the content and every field
\* that the tag and the split flag put on the wire
SameRelevant(p, o) ==
    /\ o.reliability = p.reliability
    /\ o.split = p.split
    /\ o.content = p.content
    /\ (p.reliability \in { reliabilityReliable, reliabilityReliableOrdered,
                            reliabilityReliableSequenced, reliabilityReliableWithAck,
                            reliabilityReliableOrderedWithAck }
          => o.messageIndex = p.messageIndex)
    /\ (p.reliability \in { reliabilityUnreliableSequenced,
                            reliabilityReliableSequenced }
          => o.sequenceIndex = p.sequenceIndex)
    /\ (p.reliability \in { reliabilityUnreliableSequenced, reliabilityReliableOrdered,
                            reliabilityReliableSequenced,
                            reliabilityReliableOrderedWithAck }
          => o.orderIndex = p.orderIndex)
    /\ (p.split => /\ o.splitCount = p.splitCount
                   /\ o.splitID = p.splitID
                   /\ o.splitIndex = p.splitIndex)

\* C3: packet round-trip.  Reading a written packet (any tag, either split
\* flag, content of 1 to 8191 bytes) succeeds and restores the tag, the split
\* flag, the content and every field relevant to the tag and the split flag.
C3_PacketRoundTrip ==
    (op = "read" /\ ~truncated /\ nread \in 1..Len(in))
        => (err = "nil" /\ SameRelevant(in[nread], out))

C3_Witness ==
    /\ op = "read" /\ nread = 1 /\ err = "nil"
    /\ Len(in) = 1 /\ in[1] \in LongPackets
    /\ Len(out.content) = MaxContentLength
    /\ out.sequenceIndex = 263430 /\ out.splitID = 3599

\* C4: reading a strict prefix of a packet's encoding returns an error.
C4_TruncatedIsError ==
    (op = "read" /\ truncated /\ nread = 1) => err # "nil"

\* C5: zero-length rejection.  Whatever the header byte and the bytes that
\* follow, a read whose 16-bit length field shifted right by 3 is 0 returns the
\* invalid-length error having taken only the header and the length field from
\* the buffer, and leaves the index, split and content fields of the struct
\* as they were.
C5_ZeroLengthRejected ==
    [][ (op' = "read" /\ Len(b) >= 3 /\ (b[2] * 256 + b[3]) \div 8 = 0)
          => /\ err' = "ErrInvalidLength"
             /\ b' = Drop(b, 3)
             /\ out'.messageIndex = out.messageIndex
             /\ out'.sequenceIndex = out.sequenceIndex
             /\ out'.orderIndex = out.orderIndex
             /\ out'.splitCount = out.splitCount
             /\ out'.splitID = out.splitID
             /\ out'.splitIndex = out.splitIndex
             /\ out'.content = out.content ]_vars

C5_Witness ==
    /\ op = "read" /\ err = "ErrInvalidLength"
    /\ trail[2] = 0 /\ trail[3] = 7
    /\ Len(trail) > 3 /\ b = Drop(trail, 3)
    /\ out.reliability = reliabilityReliableOrderedWithAck /\ out.split
    /\ out.messageIndex = 11 /\ out.splitCount = 14 /\ out.content = <<9, 9>>

\* C7: classifier consistency.  For the tag of every packet handled,
\* sequencedOrOrdered is true exactly when sequenced is true or the tag is
\* ReliableOrdered or ReliableOrderedWithAck; reliable is true exactly for the
\* five reliable tags and sequenced exactly for the two sequenced tags.
C7_ClassifierConsistent ==
    \A k \in 1..Len(in) :
        LET t == in[k].reliability IN
        /\ sequencedOrOrdered(t) <=>
             (sequenced(t) \/ t = reliabilityReliableOrdered
                           \/ t = reliabilityReliableOrderedWithAck)
        /\ reliable(t) <=>
             t \in { reliabilityReliable, reliabilityReliableOrdered,
                     reliabilityReliableSequenced, reliabilityReliableWithAck,
                     reliabilityReliableOrderedWithAck }
        /\ sequenced(t) <=>
             t \in { reliabilityUnreliableSequenced, reliabilityReliableSequenced }

C7_Witness ==
    /\ op = "write" /\ Len(in) = 2
    /\ in[1].reliability = reliabilityReliableOrderedWithAck
    /\ in[2].reliability = reliabilityUnreliableWithAck
    /\ Len(b) = 3 + 3 + 4 + 2 + 3 + 2

\* the number of bytes one packet takes on the wire
WireSize(p) ==
    3 + (IF p.reliability \in { 2, 3, 4, 6, 7 } THEN 3 ELSE 0)
      + (IF p.reliability \in { 1, 4 } THEN 3 ELSE 0)
      + (IF p.reliability \in { 1, 3, 4, 7 } THEN 4 ELSE 0)
      + (IF p.split THEN 10 ELSE 0)
      + Len(p.content)

RECURSIVE WriteAll(_)
WriteAll(ps) ==
    IF ps = <<>> THEN <<>> ELSE packetWrite(Head(ps)) \o WriteAll(Tail(ps))

\* C10: a read consumes exactly one packet's bytes.  With valid packets
\* written back to back and trailing bytes behind them, each read yields the
\* next packet, takes 3 + 3 (reliable) + 3 (sequenced) + 4 (sequenced or
\* ordered) + 10 (split) + content length bytes, and leaves the encodings of
\* the packets not yet read, followed by the trailing bytes, unread.
C10_ExactConsumption ==
    (op = "read" /\ ~truncated /\ nread \in 1..Len(in))
        => /\ SameRelevant(in[nread], out)
           /\ consumed = WireSize(in[nread])
           /\ b = WriteAll(SubSeq(in, nread + 1, Len(in))) \o trail

C10_Witness ==
    /\ op = "read" /\ nread = 2 /\ Len(in) = 2
    /\ in[1] # in[2] /\ in[1].reliability = reliabilityReliableOrdered
    /\ trail # <<>> /\ b = trail
    /\ consumed = WireSize(in[2])

(***************************************************************************)
(* Properties of the acknowledgement codec.                                *)
(***************************************************************************)
Values(s) == { s[k] : k \in DOMAIN s }
IsDistinct(s) == Cardinality(Values(s)) = Len(s)
Occurrences(s, v) == Cardinality({ k \in DOMAIN s : s[k] = v })
SameBag(s, t) ==
    /\ Len(s) = Len(t)
    /\ \A v \in Values(s) : Occurrences(s, v) = Occurrences(t, v)
IsAscending(s) == \A k \in 1..(Len(s) - 1) : s[k] <= s[k + 1]

\* the most records that a signed 16-bit count can announce
MaxRecordCount == 2^15 - 1

\* the record count field at the head of an encoding, as the signed 16-bit
\* number it is
CountField(s) ==
    IF s[1] >= 128 THEN (s[1] * 256 + s[2]) - 65536 ELSE s[1] * 256 + s[2]

\* the maximal runs of consecutive values of the set S
NumRuns(S) == Cardinality({ v \in S : v - 1 \notin S })

\* the records that a list s is written as: one per element, less one for
\* every value whose predecessor is in the list too
NumRecords(s) ==
    LET S == Values(s) IN Len(s) - Cardinality({ v \in S : v - 1 \in S })

Min(S) == CHOOSE v \in S : \A w \in S : v <= w

\* the last value of the maximal run of S that starts at f
RunEnd(S, f) ==
    CHOOSE l \in S :
        /\ l >= f
        /\ l + 1 \notin S
        /\ Cardinality({ v \in S : f <= v /\ v <= l }) = l - f + 1

RECURSIVE RunRecords(_)
RunRecords(S) ==
    IF S = {} THEN <<>>
    ELSE LET f == Min(S)
             l == RunEnd(S, f)
             f3 == << f \div 65536, (f \div 256) % 256, f % 256 >>
             l3 == << l \div 65536, (l \div 256) % 256, l % 256 >>
         IN  (IF f = l THEN <<1>> \o f3 ELSE <<0>> \o f3 \o l3)
               \o RunRecords({ v \in S : v > l })

\* C1: acknowledgement round-trip.  For any list of distinct sequence numbers,
\* in any order, reading what write produced into a fresh acknowledgement
\* succeeds and yields exactly those sequence numbers.
C1_AckRoundTrip ==
    (op = "ackread" /\ pc = "idle" /\ trail = <<>> /\ IsDistinct(input))
        => (err = "nil" /\ Len(rack) = Len(input) /\ Values(rack) = Values(input))

\* C2: the empty set.  write on an empty packet list produces exactly one byte
\* of value 0, and read on that byte succeeds and yields no packets.
C2_EmptySet ==
    /\ (op = "ackwrite" /\ pc = "idle" /\ input = <<>>) => b = <<0>>
    /\ (op = "ackread" /\ pc = "idle" /\ trail = <<>> /\ input = <<>>)
          => (err = "nil" /\ rack = <<>>)

C8_UnknownRecordType ==
    [][ (pc = "read" /\ Len(b) > 0 /\ b[1] \notin { 0, 1 })
          => /\ b' = Tail(b)
             /\ rack' = rack
             /\ err' = "nil"
             /\ i' = i + 1 /\ n' = n
             /\ pc' = IF i + 1 < n THEN "read" ELSE "idle" ]_vars

C8_Witness ==
    /\ op = "ackread" /\ pc = "idle" /\ err = "nil"
    /\ trail = <<0, 2, 255, 1, 0, 1, 0>>
    /\ rack = <<256>> /\ i = 2 /\ b = <<>>

====
